---- MODULE Spec2Model ----
(***************************************************************************)
(* Genetic-Dots (src/main.py): a swarm of dots, each steered by a brain    *)
(* (a fixed array of unit direction vectors), evolved generation after    *)
(* generation by Population.calculate_fitness / natural_selection /       *)
(* mutate_babies.                                                          *)
(*                                                                         *)
(* Numbers.  The program computes with float64.  Positions, velocities    *)
(* and genes are modelled on the integer grid: a gene is one of the four  *)
(* axis unit vectors, and the velocity limit truncates towards zero.      *)
(* Fitnesses are exact rationals <<numerator, denominator>>; sums of      *)
(* fitnesses are exact too, carried as arbitrary-size naturals (lists of  *)
(* base-10000 digits) over the product of the cohort's denominators.      *)
(*                                                                         *)
(* Storage.  A numpy array is an object: `arrays` is the heap of the      *)
(* direction arrays, and a brain holds the id of its array, so that two   *)
(* brains sharing one array is a state the model can express.             *)
(*                                                                         *)
(* Indices are the program's: dots, slots and best_dot count from 0;      *)
(* a direction array is a sequence, so directions[k] of the program is    *)
(* element k+1 here.  A vector <<a, b>> is the program's [a, b]: a is the  *)
(* row (compared with height), b the column (compared with width).        *)
(***************************************************************************)
EXTENDS Integers, Sequences, FiniteSets, TLC

(***************************************************************************)
(* Bounds: the program's sizes, scaled down.                               *)
(***************************************************************************)
swarm_size == 2       \* number of dots            (50 in the program)
BrainSize == 3        \* directions per brain      (400 in the program)
height == 40          \* window height             (800 in the program)
width == 40           \* window width              (1600 in the program)
StartOffset == 10     \* start row is height - StartOffset (125 in the program)
Rect1Top == 30        \* rect_1[1]                 (200 in the program)
Rect1Height == 3      \* rect_1[3]                 (50 in the program)
Rect2Top == 32        \* rect_2[1]                 (500 in the program)
Rect2Height == 3      \* rect_2[3]                 (50 in the program)
MaxGen == 3           \* generations simulated
MaxMut == 1           \* genes replaced by one mutate_babies pass, at most
DotSpeed == 3         \* largest velocity component of a dot picked up in mid-flight
SelSize == 3          \* cohort size of the selection-only specification

(***************************************************************************)
(* Program constants, unscaled.                                            *)
(***************************************************************************)
dot_max_velocity == 15
GoalRow == 20
GoalRadius == 20
EdgeMargin == 2

goal == <<GoalRow, width \div 2>>
start == <<height - StartOffset, (19 * width) \div 20>>

\* The unit vectors a gene can be.
Dirs == {<<1, 0>>, <<0 - 1, 0>>, <<0, 1>>, <<0, 0 - 1>>}

VARIABLES
    dots,         \* Population.dots: index -> Dot
    arrays,       \* heap of numpy direction arrays: id -> sequence of vectors
    fitness_sum,  \* Population.fitness_sum, [num, den] of naturals
    gen,          \* Population.gen
    best_dot,     \* Population.best_dot
    min_step,     \* Population.min_step
    dead_count,   \* global dead_count
    goal_count,   \* global goal_count
    moves,        \* main's local moves
    pc,           \* where main's loop stands
    picks,        \* what natural_selection last drew and chose: slot -> [rand, parent]
    elite_of      \* how the dot that natural_selection last cloned into slot 0 ended:
                  \* its reached_goal and its brain.step

vars == <<dots, arrays, fitness_sum, gen, best_dot, min_step, dead_count,
          goal_count, moves, pc, picks, elite_of>>

(***************************************************************************)
(* Vectors.                                                                *)
(***************************************************************************)
VecAdd(a, b) == <<a[1] + b[1], a[2] + b[2]>>

SqNorm(v) == v[1] * v[1] + v[2] * v[2]

\* One component of dot_max_velocity * vel / velocity_mag, truncated towards 0.
Rescale(c, m2) ==
    LET q == CHOOSE k \in 0..dot_max_velocity :
                 /\ k * k * m2 <= dot_max_velocity * dot_max_velocity * c * c
                 /\ (k + 1) * (k + 1) * m2 > dot_max_velocity * dot_max_velocity * c * c
    IN  IF c < 0 THEN 0 - q ELSE q

\* The velocity limit of Dot.move.
LimitVelocity(v) ==
    IF SqNorm(v) > dot_max_velocity * dot_max_velocity
    THEN <<Rescale(v[1], SqNorm(v)), Rescale(v[2], SqNorm(v))>>
    ELSE v

(***************************************************************************)
(* The window, the goal and the two rectangles, as Dot.update tests them.  *)
(* rect_1 = (0, Rect1Top, width/2.5, Rect1Height) and                      *)
(* rect_2 = (width/2, Rect2Top, width, Rect2Height); the comparisons with  *)
(* width/2.5 and width/2 are multiplied out to stay exact.                 *)
(***************************************************************************)
OutOfBounds(p) ==
    \/ p[1] < EdgeMargin
    \/ p[2] < EdgeMargin
    \/ p[1] > height - EdgeMargin
    \/ p[2] > width - EdgeMargin

DistSq(p) == SqNorm(<<goal[1] - p[1], goal[2] - p[2]>>)

InGoal(p) == DistSq(p) < GoalRadius * GoalRadius

InRect1(p) ==
    /\ Rect1Top < p[1] /\ p[1] < Rect1Top + Rect1Height
    /\ 0 < p[2] /\ 5 * p[2] < 2 * width

InRect2(p) ==
    /\ Rect2Top < p[1] /\ p[1] < Rect2Top + Rect2Height
    /\ width < 2 * p[2] /\ 2 * p[2] < 3 * width

(***************************************************************************)
(* Dot.                                                                    *)
(***************************************************************************)
\* Dot.__init__, with the brain's array id given by the caller.
NewDot(id) ==
    [brain |-> [directions |-> id, step |-> 0],
     pos |-> start, vel |-> <<0, 0>>, acc |-> <<0, 0>>,
     dead |-> 0, fitness |-> <<0, 1>>, reached_goal |-> 0, is_best |-> 0]

\* Dot.move on dot d whose brain's array holds dirs; dc is dead_count.
Dot_move(d, dirs, dc) ==
    LET left == Len(dirs) > d.brain.step
        acc1 == IF left THEN dirs[d.brain.step + 1] ELSE d.acc
        vel1 == LimitVelocity(VecAdd(d.vel, acc1))
    IN  [dot |-> [d EXCEPT !.acc = acc1,
                           !.brain.step = IF left THEN @ + 1 ELSE @,
                           !.dead = IF left THEN @ ELSE 1,
                           !.vel = vel1,
                           !.pos = VecAdd(@, vel1)],
         dead_count |-> IF left THEN dc ELSE dc + 1]

\* The same tests with the goal tried before the window's edge.
Collide_GoalFirst(m, gc) ==
    LET p == m.dot.pos
    IN  IF InGoal(p)
        THEN [dot |-> [m.dot EXCEPT !.reached_goal = 1],
              dead_count |-> m.dead_count, goal_count |-> gc + 1]
        ELSE IF OutOfBounds(p) \/ InRect1(p) \/ InRect2(p)
        THEN [dot |-> [m.dot EXCEPT !.dead = 1],
              dead_count |-> m.dead_count + 1, goal_count |-> gc]
        ELSE [dot |-> m.dot, dead_count |-> m.dead_count, goal_count |-> gc]

\* The same tests with the last one, of rect_2, left out.
Collide_NoRect2(m, gc) ==
    LET p == m.dot.pos
    IN  IF OutOfBounds(p) \/ (~InGoal(p) /\ InRect1(p))
        THEN [dot |-> [m.dot EXCEPT !.dead = 1],
              dead_count |-> m.dead_count + 1, goal_count |-> gc]
        ELSE IF InGoal(p)
        THEN [dot |-> [m.dot EXCEPT !.reached_goal = 1],
              dead_count |-> m.dead_count, goal_count |-> gc + 1]
        ELSE [dot |-> m.dot, dead_count |-> m.dead_count, goal_count |-> gc]

\* The if/elif chain of Dot.update on the moved dot m.dot; gc is goal_count.
Collide(m, gc) ==
    LET p == m.dot.pos
    IN  IF OutOfBounds(p)
        THEN [dot |-> [m.dot EXCEPT !.dead = 1],
              dead_count |-> m.dead_count + 1, goal_count |-> gc]
        ELSE IF InGoal(p)
        THEN [dot |-> [m.dot EXCEPT !.reached_goal = 1],
              dead_count |-> m.dead_count, goal_count |-> gc + 1]
        ELSE IF InRect1(p)
        THEN [dot |-> [m.dot EXCEPT !.dead = 1],
              dead_count |-> m.dead_count + 1, goal_count |-> gc]
        ELSE IF InRect2(p)
        THEN [dot |-> [m.dot EXCEPT !.dead = 1],
              dead_count |-> m.dead_count + 1, goal_count |-> gc]
        ELSE [dot |-> m.dot, dead_count |-> m.dead_count, goal_count |-> gc]

\* Dot.update with a guard that forgets reached_goal.
Dot_update_DeadOnly(d, dirs, dc, gc) ==
    IF d.dead = 0
    THEN Collide(Dot_move(d, dirs, dc), gc)
    ELSE [dot |-> d, dead_count |-> dc, goal_count |-> gc]

\* Dot.update; dc and gc are the globals dead_count and goal_count.
Dot_update(d, dirs, dc, gc) ==
    IF d.dead = 0 /\ d.reached_goal = 0
    THEN Collide(Dot_move(d, dirs, dc), gc)
    ELSE [dot |-> d, dead_count |-> dc, goal_count |-> gc]

(***************************************************************************)
(* Population.                                                             *)
(***************************************************************************)
Size(ds) == Cardinality(DOMAIN ds)

DirsOf(ds, arrs, i) == arrs[ds[i].brain.directions]

\* The loop body of Population.update without its test of min_step.
UpdateOne_NoBudget(w, arrs, ms, i) ==
    LET u == Dot_update(w.dots[i], DirsOf(w.dots, arrs, i),
                        w.dead_count, w.goal_count)
    IN  [dots |-> [w.dots EXCEPT ![i] = u.dot],
         dead_count |-> u.dead_count, goal_count |-> u.goal_count]

\* One pass of the loop body of Population.update, on dot i.
UpdateOne(w, arrs, ms, i) ==
    IF w.dots[i].brain.step > ms
    THEN [w EXCEPT !.dots[i].dead = 1, !.dead_count = @ + 1]
    ELSE LET u == Dot_update(w.dots[i], DirsOf(w.dots, arrs, i),
                             w.dead_count, w.goal_count)
         IN  [dots |-> [w.dots EXCEPT ![i] = u.dot],
              dead_count |-> u.dead_count, goal_count |-> u.goal_count]

RECURSIVE UpdateFrom(_, _, _, _)
UpdateFrom(w, arrs, ms, i) ==
    IF i >= Size(w.dots) THEN w
    ELSE UpdateFrom(UpdateOne(w, arrs, ms, i), arrs, ms, i + 1)

\* Population.update.
Population_update(ds, arrs, ms, dc, gc) ==
    UpdateFrom([dots |-> ds, dead_count |-> dc, goal_count |-> gc], arrs, ms, 0)

\* all_dots_dead looking at the dead flag alone.
all_dots_dead_DeadOnly(ds) == \A i \in DOMAIN ds : ds[i].dead # 0

\* all_dots_dead answering True as soon as one dot is dead or at the goal.
all_dots_dead_Any(ds) ==
    \E i \in DOMAIN ds : ~(ds[i].dead = 0 /\ ds[i].reached_goal = 0)

\* Population.all_dots_dead.
all_dots_dead(ds) ==
    \A i \in DOMAIN ds : ~(ds[i].dead = 0 /\ ds[i].reached_goal = 0)

(***************************************************************************)
(* Exact arithmetic on naturals of any size: a list of base-10000 digits,  *)
(* least significant first, no leading zero digit; <<>> is 0.  It carries  *)
(* the float sums of calculate_fitness_sum and select_parent.              *)
(***************************************************************************)
BigBase == 100 * 100

RECURSIVE BigNat(_)
BigNat(n) == IF n = 0 THEN <<>> ELSE <<n % BigBase>> \o BigNat(n \div BigBase)

RECURSIVE BigAddCarry(_, _, _)
BigAddCarry(a, b, c) ==
    IF a = <<>> /\ b = <<>>
    THEN BigNat(c)
    ELSE LET s == (IF a = <<>> THEN 0 ELSE Head(a))
                  + (IF b = <<>> THEN 0 ELSE Head(b)) + c
         IN  <<s % BigBase>> \o
             BigAddCarry(IF a = <<>> THEN a ELSE Tail(a),
                         IF b = <<>> THEN b ELSE Tail(b), s \div BigBase)

BigAdd(a, b) == BigAddCarry(a, b, 0)

RECURSIVE BigMulCarry(_, _, _)
BigMulCarry(a, k, c) ==
    IF a = <<>>
    THEN BigNat(c)
    ELSE <<(Head(a) * k + c) % BigBase>> \o
         BigMulCarry(Tail(a), k, (Head(a) * k + c) \div BigBase)

\* a times the small natural k.
BigMul(a, k) == IF k = 0 THEN <<>> ELSE BigMulCarry(a, k, 0)

BigLess(a, b) ==
    IF Len(a) # Len(b)
    THEN Len(a) < Len(b)
    ELSE \E i \in 1..Len(a) :
             /\ a[i] < b[i]
             /\ \A j \in (i + 1)..Len(a) : a[j] = b[j]

(***************************************************************************)
(* Fitness.                                                                *)
(***************************************************************************)
\* Dot.calculate_fitness with its two branches swapped.
Dot_calculate_fitness_Swapped(d) ==
    IF d.reached_goal = 0
    THEN [d EXCEPT !.fitness =
             <<d.brain.step * d.brain.step + 16 * 1000,
               16 * d.brain.step * d.brain.step>>]
    ELSE [d EXCEPT !.fitness = <<1, DistSq(d.pos)>>]

\* Dot.calculate_fitness with step^2/1000 for 1000/step^2: more steps to
\* the goal score higher.
Dot_calculate_fitness_SlowBest(d) ==
    IF d.reached_goal # 0
    THEN [d EXCEPT !.fitness =
             <<16 * d.brain.step * d.brain.step + 1000, 16 * 1000>>]
    ELSE [d EXCEPT !.fitness = <<1, DistSq(d.pos)>>]

\* Dot.calculate_fitness: 1/16 + 1000/step^2, or 1/distance^2.  A zero
\* denominator stands for the division by zero.
Dot_calculate_fitness(d) ==
    IF d.reached_goal # 0
    THEN [d EXCEPT !.fitness =
             <<d.brain.step * d.brain.step + 16 * 1000,
               16 * d.brain.step * d.brain.step>>]
    ELSE [d EXCEPT !.fitness = <<1, DistSq(d.pos)>>]

\* Population.calculate_fitness.
calculate_fitness(ds) == [i \in DOMAIN ds |-> Dot_calculate_fitness(ds[i])]

\* The product of the fitness denominators of the dots from i on, but for dot skip.
RECURSIVE DenProduct(_, _, _)
DenProduct(ds, i, skip) ==
    IF i >= Size(ds) THEN <<1>>
    ELSE IF i = skip THEN DenProduct(ds, i + 1, skip)
    ELSE BigMul(DenProduct(ds, i + 1, skip), ds[i].fitness[2])

\* Dot i's fitness as a numerator over the cohort's common denominator.
Share(ds, i) == BigMul(DenProduct(ds, 0, i), ds[i].fitness[1])

\* The running sum of the fitnesses of dots 0..(n-1), over the common denominator.
RECURSIVE RunningSum(_, _)
RunningSum(ds, n) ==
    IF n = 0 THEN <<>> ELSE BigAdd(RunningSum(ds, n - 1), Share(ds, n - 1))

\* calculate_fitness_sum adding up the fitnesses of the new dots, all still 0.
calculate_fitness_sum_OfBabies(ds) ==
    [num |-> BigMul(RunningSum(ds, Size(ds)), 0), den |-> DenProduct(ds, 0, 0 - 1)]

\* Population.calculate_fitness_sum.
calculate_fitness_sum(ds) ==
    [num |-> RunningSum(ds, Size(ds)), den |-> DenProduct(ds, 0, 0 - 1)]

(***************************************************************************)
(* Selection.                                                              *)
(***************************************************************************)
\* f > g on fitnesses.
FitGreater(f, g) == f[1] * g[2] > g[1] * f[2]

\* The loop of set_best_dot with >= for >.
RECURSIVE BestFrom_OrEqual(_, _, _, _)
BestFrom_OrEqual(ds, i, mf, mi) ==
    IF i >= Size(ds) THEN mi
    ELSE IF ~FitGreater(mf, ds[i].fitness)
    THEN BestFrom_OrEqual(ds, i + 1, ds[i].fitness, i)
    ELSE BestFrom_OrEqual(ds, i + 1, mf, mi)

\* The loop of Population.set_best_dot from index i, with the running
\* max_fitness mf and max_index mi.
RECURSIVE BestFrom(_, _, _, _)
BestFrom(ds, i, mf, mi) ==
    IF i >= Size(ds) THEN mi
    ELSE IF FitGreater(ds[i].fitness, mf)
    THEN BestFrom(ds, i + 1, ds[i].fitness, i)
    ELSE BestFrom(ds, i + 1, mf, mi)

\* The step count set_best_dot leaves in min_step with its test of
\* reached_goal left out.
NewMinStep_Always(d, ms) == d.brain.step

\* The end of set_best_dot: min_step, given the best dot d.
NewMinStep(d, ms) == IF d.reached_goal # 0 THEN d.brain.step ELSE ms

\* Population.set_best_dot: the new best_dot and min_step.
set_best_dot(ds, ms) ==
    LET b == BestFrom(ds, 0, <<0, 1>>, 0)
    IN  [best_dot |-> b, min_step |-> NewMinStep(ds[b], ms)]

\* uniform(0, fitness_sum) is fitness_sum * random() with random() in [0, 1):
\* 0 when fitness_sum is 0, and else a value in [0, fitness_sum).  A draw is
\* carried in half units of the common denominator; the draws taken are the
\* start and the middle of every dot's stretch of the running sum.
RandDraws(ds, fsum) ==
    IF fsum.num = <<>> THEN {<<>>}
    ELSE {r \in {BigMul(RunningSum(ds, k), 2) : k \in DOMAIN ds} \cup
                {BigAdd(RunningSum(ds, k), RunningSum(ds, k + 1)) : k \in DOMAIN ds} :
             BigLess(r, BigMul(fsum.num, 2))}

\* The loop of select_parent with >= for >.
RECURSIVE ParentFrom_OrEqual(_, _, _)
ParentFrom_OrEqual(ds, rand, i) ==
    IF i >= Size(ds) THEN 0 - 1
    ELSE IF ~BigLess(BigMul(RunningSum(ds, i + 1), 2), rand) THEN i
    ELSE ParentFrom_OrEqual(ds, rand, i + 1)

\* The loop of Population.select_parent from index i; -1 is its `return 0`.
RECURSIVE ParentFrom(_, _, _)
ParentFrom(ds, rand, i) ==
    IF i >= Size(ds) THEN 0 - 1
    ELSE IF BigLess(rand, BigMul(RunningSum(ds, i + 1), 2)) THEN i
    ELSE ParentFrom(ds, rand, i + 1)

\* Population.select_parent, given its draw.
select_parent(ds, rand) == ParentFrom(ds, rand, 0)

(***************************************************************************)
(* Reproduction.                                                           *)
(***************************************************************************)
\* Brain.clone handing the parent's array on in place of a copy.
Brain_clone_Shared(arrs, brain, fresh) ==
    [arrays |-> arrs, brain |-> [directions |-> brain.directions, step |-> 0]]

\* Brain.clone: a new array, with id fresh, filled by np.copyto.
Brain_clone(arrs, brain, fresh) ==
    [arrays |-> [k \in DOMAIN arrs \cup {fresh} |->
                    IF k = fresh THEN arrs[brain.directions] ELSE arrs[k]],
     brain |-> [directions |-> fresh, step |-> 0]]

\* Dot.get_baby handing the parent's is_best on to the baby.
Dot_get_baby_KeepBest(d, arrs, fresh) ==
    LET c == Brain_clone(arrs, d.brain, fresh)
    IN  [arrays |-> c.arrays,
         dot |-> [NewDot(fresh) EXCEPT !.brain = c.brain, !.is_best = d.is_best]]

\* Dot.get_baby.
Dot_get_baby(d, arrs, fresh) ==
    LET c == Brain_clone(arrs, d.brain, fresh)
    IN  [arrays |-> c.arrays, dot |-> [NewDot(fresh) EXCEPT !.brain = c.brain]]

\* The loop of natural_selection stopping one slot short.
RECURSIVE FillFrom_Short(_, _, _, _)
FillFrom_Short(ds, rands, s, i) ==
    IF i >= Size(ds) - 1 \/ s.crashed THEN s
    ELSE LET parent == select_parent(ds, rands[i])
             pk == [k \in DOMAIN s.picks \cup {i} |->
                       IF k = i THEN [rand |-> rands[i], parent |-> parent]
                       ELSE s.picks[k]]
         IN  IF parent < 0
             THEN [s EXCEPT !.picks = pk, !.crashed = TRUE]
             ELSE LET b == Dot_get_baby(ds[parent], s.arrays, Size(ds) + i)
                  IN  FillFrom_Short(ds, rands,
                                     [arrays |-> b.arrays,
                                      new_dots |-> [k \in DOMAIN s.new_dots \cup {i} |->
                                                       IF k = i THEN b.dot
                                                       ELSE s.new_dots[k]],
                                      picks |-> pk, crashed |-> FALSE],
                                     i + 1)

\* The loop of natural_selection over the slots from i on.  s holds the heap,
\* the new dots made so far, the draws and parents so far, and whether
\* parent.get_baby() was called on select_parent's 0.
RECURSIVE FillFrom(_, _, _, _)
FillFrom(ds, rands, s, i) ==
    IF i >= Size(ds) \/ s.crashed THEN s
    ELSE LET parent == select_parent(ds, rands[i])
             pk == [k \in DOMAIN s.picks \cup {i} |->
                       IF k = i THEN [rand |-> rands[i], parent |-> parent]
                       ELSE s.picks[k]]
         IN  IF parent < 0
             THEN [s EXCEPT !.picks = pk, !.crashed = TRUE]
             ELSE LET b == Dot_get_baby(ds[parent], s.arrays, Size(ds) + i)
                  IN  FillFrom(ds, rands,
                               [arrays |-> b.arrays,
                                new_dots |-> [k \in DOMAIN s.new_dots \cup {i} |->
                                                 IF k = i THEN b.dot ELSE s.new_dots[k]],
                                picks |-> pk, crashed |-> FALSE],
                               i + 1)

\* The arrays the dots nd hold, renamed: an array takes the index of the
\* first dot that holds it.
FirstHolder(nd, i) ==
    CHOOSE j \in DOMAIN nd :
        /\ nd[j].brain.directions = nd[i].brain.directions
        /\ \A k \in DOMAIN nd :
               nd[k].brain.directions = nd[i].brain.directions => j <= k

\* Population.natural_selection, given the draws of its select_parent calls.
natural_selection(ds, arrs, ms, rands) ==
    LET sb == set_best_dot(ds, ms)
        e == Dot_get_baby(ds[sb.best_dot], arrs, Size(ds))
        fsum == calculate_fitness_sum(ds)
        s == FillFrom(ds, rands,
                      [arrays |-> e.arrays,
                       new_dots |-> (0 :> [e.dot EXCEPT !.is_best = 1]),
                       picks |-> <<>>, crashed |-> FALSE],
                      1)
        nd == s.new_dots
    IN  [crashed |-> s.crashed,
         best_dot |-> sb.best_dot,
         min_step |-> sb.min_step,
         fitness_sum |-> fsum,
         picks |-> s.picks,
         dots |-> IF s.crashed THEN ds
                  ELSE [i \in DOMAIN nd |->
                           [nd[i] EXCEPT !.brain.directions = FirstHolder(nd, i)]],
         arrays |-> IF s.crashed THEN arrs
                    ELSE [k \in {FirstHolder(nd, i) : i \in DOMAIN nd} |->
                             s.arrays[nd[k].brain.directions]]]

(***************************************************************************)
(* Mutation.                                                               *)
(***************************************************************************)
\* Brain.mutate on the brain of dot i: gene g is replaced when the draw
\* fell under mutation_rate, which is when mut names <<i, g>>.
RECURSIVE Brain_mutate(_, _, _, _, _)
Brain_mutate(arrs, brain, mut, i, g) ==
    IF g > Len(arrs[brain.directions]) THEN arrs
    ELSE Brain_mutate(IF <<i, g>> \in DOMAIN mut
                      THEN [arrs EXCEPT ![brain.directions][g] = mut[<<i, g>>]]
                      ELSE arrs,
                      brain, mut, i, g + 1)

RECURSIVE MutateFrom(_, _, _, _)
MutateFrom(ds, arrs, mut, i) ==
    IF i >= Size(ds) THEN arrs
    ELSE MutateFrom(ds, Brain_mutate(arrs, ds[i].brain, mut, i, 1), mut, i + 1)

\* Population.mutate_babies.
mutate_babies(ds, arrs, mut) == MutateFrom(ds, arrs, mut, 1)

\* What the draws of one mutate_babies pass can come to: the genes replaced
\* (dot, gene), of dots 1 and up, and the direction each is replaced by.
Mutations(ds) ==
    UNION {[S -> Dirs] :
             S \in {T \in SUBSET (((DOMAIN ds) \ {0}) \X (1..BrainSize)) :
                       Cardinality(T) <= MaxMut}}

(***************************************************************************)
(* The start: Population(swarm_size), every brain randomized.              *)
(***************************************************************************)
Opposite(v) == <<0 - v[1], 0 - v[2]>>

\* The brains a fresh dot is given here: a first direction, then a second
\* one, equal or opposite to it, for the rest of the array.
InitBrains ==
    {[k \in 1..BrainSize |-> IF k = 1 THEN a ELSE b] :
        a \in Dirs, b \in Dirs} \cap
    {s \in [1..BrainSize -> Dirs] : s[BrainSize] \in {s[1], Opposite(s[1])}}

Init ==
    /\ arrays \in [0..(swarm_size - 1) -> InitBrains]
    /\ dots = [i \in 0..(swarm_size - 1) |-> NewDot(i)]
    /\ fitness_sum = [num |-> <<>>, den |-> <<1>>]
    /\ gen = 1
    /\ best_dot = 0
    /\ min_step = BrainSize
    /\ dead_count = 0
    /\ goal_count = 0
    /\ moves = 0
    /\ pc = "loop"
    /\ picks = <<>>
    /\ elite_of = [reached_goal |-> 0, step |-> 0]

(***************************************************************************)
(* main's loop, the branch that moves the dots.                            *)
(***************************************************************************)
Update ==
    /\ pc = "loop"
    /\ ~all_dots_dead(dots)
    /\ LET w == Population_update(dots, arrays, min_step, dead_count, goal_count)
       IN  /\ dots' = w.dots
           /\ dead_count' = w.dead_count
           /\ goal_count' = w.goal_count
    /\ moves' = moves + 1
    /\ UNCHANGED <<arrays, fitness_sum, gen, best_dot, min_step, pc, picks, elite_of>>

(***************************************************************************)
(* main's loop, the branch taken when all dots are dead, in its three      *)
(* calls: swarm.calculate_fitness(), swarm.natural_selection(),            *)
(* swarm.mutate_babies().                                                  *)
(***************************************************************************)
CalculateFitness ==
    /\ pc = "loop"
    /\ all_dots_dead(dots)
    /\ gen < MaxGen
    /\ moves' = 0
    /\ dead_count' = 0
    /\ goal_count' = 0
    /\ dots' = calculate_fitness(dots)
    /\ pc' = "natural_selection"
    /\ UNCHANGED <<arrays, fitness_sum, gen, best_dot, min_step, picks, elite_of>>

NaturalSelection ==
    /\ pc = "natural_selection"
    /\ \E rands \in [1..(Size(dots) - 1) ->
                        RandDraws(dots, calculate_fitness_sum(dots))] :
           LET r == natural_selection(dots, arrays, min_step, rands)
           IN  /\ dots' = r.dots
               /\ arrays' = r.arrays
               /\ best_dot' = r.best_dot
               /\ min_step' = r.min_step
               /\ fitness_sum' = r.fitness_sum
               /\ picks' = r.picks
               /\ gen' = IF r.crashed THEN gen ELSE gen + 1
               /\ pc' = IF r.crashed THEN "crashed" ELSE "mutate_babies"
               /\ elite_of' = IF r.crashed THEN elite_of
                               ELSE [reached_goal |-> dots[r.best_dot].reached_goal,
                                     step |-> dots[r.best_dot].brain.step]
    /\ UNCHANGED <<dead_count, goal_count, moves>>

MutateBabies ==
    /\ pc = "mutate_babies"
    /\ \E mut \in Mutations(dots) :
           arrays' = mutate_babies(dots, arrays, mut)
    /\ pc' = "loop"
    /\ UNCHANGED <<dots, fitness_sum, gen, best_dot, min_step, dead_count,
                   goal_count, moves, picks, elite_of>>

Next ==
    \/ Update
    \/ CalculateFitness
    \/ NaturalSelection
    \/ MutateBabies

Spec == Init /\ [][Next]_vars

(***************************************************************************)
(* One dot picked up in mid-flight: Population.update and                  *)
(* calculate_fitness on a population of one dot that is still active, at   *)
(* any place an active dot can be, with one direction left or none, under  *)
(* a min_step the dot is within or one step over.                          *)
(***************************************************************************)
ActivePlaces ==
    {p \in (EdgeMargin..(height - EdgeMargin)) \X (EdgeMargin..(width - EdgeMargin)) :
        ~InGoal(p) /\ ~InRect1(p) /\ ~InRect2(p)}

FlightVelocities ==
    ((0 - DotSpeed)..DotSpeed) \X ((0 - DotSpeed)..DotSpeed)
    \cup {<<a * dot_max_velocity, b * dot_max_velocity>> :
             a \in {0 - 1, 1}, b \in {0}}
    \cup {<<a * dot_max_velocity, b * dot_max_velocity>> :
             a \in {0}, b \in {0 - 1, 1}}

InitDot ==
    /\ \E a \in Dirs : arrays = (0 :> [k \in 1..BrainSize |-> a])
    /\ \E p \in ActivePlaces, v \in FlightVelocities,
          st \in {BrainSize - 1, BrainSize} :
           dots = (0 :> [NewDot(0) EXCEPT !.pos = p, !.vel = v,
                                          !.acc = arrays[0][1],
                                          !.brain.step = st])
    /\ min_step \in {BrainSize - 1, BrainSize}
    /\ fitness_sum = [num |-> <<>>, den |-> <<1>>]
    /\ gen = 1
    /\ best_dot = 0
    /\ dead_count = 0
    /\ goal_count = 0
    /\ moves = 1
    /\ pc = "loop"
    /\ picks = <<>>
    /\ elite_of = [reached_goal |-> 0, step |-> 0]

NextDot ==
    \/ Update
    \/ CalculateFitness

SpecDot == InitDot /\ [][NextDot]_vars

(***************************************************************************)
(* Selection alone: natural_selection on a cohort of SelSize dead dots     *)
(* with any fitnesses out of FitnessValues, dot i holding the brain that   *)
(* repeats direction i.                                                    *)
(***************************************************************************)
FitnessValues == {0, 4, 6}

DirList == <<<<1, 0>>, <<0 - 1, 0>>, <<0, 1>>, <<0, 0 - 1>>>>

InitSel ==
    /\ arrays = [i \in 0..(SelSize - 1) |->
                    [k \in 1..BrainSize |-> DirList[(i % 4) + 1]]]
    /\ \E f \in [0..(SelSize - 1) -> FitnessValues] :
           dots = [i \in 0..(SelSize - 1) |->
                      [NewDot(i) EXCEPT !.dead = 1, !.fitness = <<f[i], 1>>,
                                        !.brain.step = BrainSize]]
    /\ min_step = BrainSize
    /\ fitness_sum = [num |-> <<>>, den |-> <<1>>]
    /\ gen = 1
    /\ best_dot = 0
    /\ dead_count = 0
    /\ goal_count = 0
    /\ moves = 0
    /\ pc = "natural_selection"
    /\ picks = <<>>
    /\ elite_of = [reached_goal |-> 0, step |-> 0]

NextSel == NaturalSelection

SpecSel == InitSel /\ [][NextSel]_vars

(***************************************************************************)
(* Properties.                                                             *)
(***************************************************************************)
Active(d) == d.dead = 0 /\ d.reached_goal = 0

\* A step of Update, and in it a dot that Population.update hands to Dot.update.
Ticked == moves' = moves + 1

Stepped(i) == Ticked /\ dots[i].brain.step <= min_step

\* C1: no dot is both dead and at the goal: the dead flag and the
\* reached_goal flag of a dot are never set together.
C1_DeadXorReachedGoal ==
    \A i \in DOMAIN dots : ~(dots[i].dead = 1 /\ dots[i].reached_goal = 1)

\* C2: Dot.update on a dot that is dead or has reached the goal leaves its
\* position, velocity, flags and brain step as they were, tick after tick.
C2_TerminalDotStays ==
    [][\A i \in DOMAIN dots :
          (Stepped(i) /\ ~Active(dots[i])) =>
              /\ dots'[i].pos = dots[i].pos
              /\ dots'[i].vel = dots[i].vel
              /\ dots'[i].dead = dots[i].dead
              /\ dots'[i].reached_goal = dots[i].reached_goal
              /\ dots'[i].brain.step = dots[i].brain.step]_vars

\* C2, reached: a dot went terminal while another was still moving, and has
\* been through Dot.update again since, the generation still running.
C2_Witness ==
    /\ pc = "loop"
    /\ ~all_dots_dead(dots)
    /\ \E i \in DOMAIN dots :
           /\ ~Active(dots[i])
           /\ dots[i].brain.step <= min_step
           /\ moves >= dots[i].brain.step + 2

\* C3: the step of an active dot whose brain has no direction left makes it
\* dead and stops there: position and velocity stay, and the dot does not
\* reach the goal by that step.
C3_ExhaustedStepStops ==
    [][\A i \in DOMAIN dots :
          (/\ Stepped(i)
           /\ Active(dots[i])
           /\ dots[i].brain.step = Len(DirsOf(dots, arrays, i))) =>
              /\ dots'[i].dead = 1
              /\ dots'[i].reached_goal = 0
              /\ dots'[i].pos = dots[i].pos
              /\ dots'[i].vel = dots[i].vel]_vars

\* C4: after an active dot has moved on a direction of its brain, one
\* outcome is applied, the first that matches of: out of bounds (dead),
\* within the goal radius (reached_goal), in rect_1 (dead), in rect_2
\* (dead); none matching, the dot stays active.  So a place both past the
\* edge margin and within the goal radius makes it dead, and a place within
\* the goal radius and in a rectangle makes it reached_goal.
C4_FirstMatchDecides ==
    [][\A i \in DOMAIN dots :
          (/\ Stepped(i)
           /\ Active(dots[i])
           /\ dots[i].brain.step < Len(DirsOf(dots, arrays, i))) =>
              LET p == dots'[i].pos
                  died == IF \/ OutOfBounds(p)
                             \/ (~InGoal(p) /\ (InRect1(p) \/ InRect2(p)))
                          THEN 1 ELSE 0
                  arrived == IF ~OutOfBounds(p) /\ InGoal(p) THEN 1 ELSE 0
              IN  /\ dots'[i].dead = died
                  /\ dots'[i].reached_goal = arrived
                  /\ died + arrived <= 1
                  /\ Size(dots) = 1 =>
                         /\ dead_count' = dead_count + died
                         /\ goal_count' = goal_count + arrived]_vars

\* C4, reached: a dot that moved on a direction of its brain to a place past
\* the edge margin and within the goal radius, and is dead, counted once.
C4_Witness ==
    /\ moves = 2
    /\ dots[0].dead = 1
    /\ dots[0].reached_goal = 0
    /\ dead_count = 1
    /\ OutOfBounds(dots[0].pos)
    /\ InGoal(dots[0].pos)

\* C5: after calculate_fitness every fitness is finite and above 0, and a
\* dot that reached the goal scores above every dot that did not: its
\* fitness is above 1/16, and that of a dot that did not reach the goal is
\* at most 1/16.
C5_ReachedScoresHigher ==
    pc = "natural_selection" =>
        \A i \in DOMAIN dots :
            /\ dots[i].fitness[2] > 0
            /\ dots[i].fitness[1] > 0
            /\ dots[i].reached_goal = 1 => FitGreater(dots[i].fitness, <<1, 16>>)
            /\ dots[i].reached_goal = 0 => ~FitGreater(dots[i].fitness, <<1, 16>>)

\* C5, reached: the fitness of a dot that died within the goal radius, past
\* the edge margin, without reaching the goal.
C5_Witness ==
    /\ pc = "natural_selection"
    /\ dots[0].reached_goal = 0
    /\ InGoal(dots[0].pos)
    /\ dots[0].fitness = <<1, DistSq(dots[0].pos)>>

\* The dot with the greatest fitness, the lowest index among equals.
BestIndex(ds) ==
    CHOOSE b \in DOMAIN ds :
        /\ \A j \in DOMAIN ds : ~FitGreater(ds[j].fitness, ds[b].fitness)
        /\ \A j \in DOMAIN ds : j < b => FitGreater(ds[b].fitness, ds[j].fitness)

\* C6: the best dot's directions are carried over unchanged: right after
\* natural_selection the directions of dots[0] are those of the old
\* population's best dot, and mutate_babies leaves them as they are,
\* whatever it replaces in the other dots, clones of the best dot included.
C6_BestCarriedOver ==
    [][/\ (pc = "natural_selection" /\ pc' = "mutate_babies") =>
              DirsOf(dots', arrays', 0) = DirsOf(dots, arrays, BestIndex(dots))
       /\ pc = "mutate_babies" =>
              DirsOf(dots', arrays', 0) = DirsOf(dots, arrays, 0)]_vars

\* C6, reached: after mutate_babies, a dot cloned from the best dot holds
\* directions other than those of dots[0].
C6_Witness ==
    /\ pc = "loop"
    /\ gen = 2
    /\ moves = 0
    /\ \E i \in DOMAIN picks :
           /\ picks[i].parent = best_dot
           /\ DirsOf(dots, arrays, i) # DirsOf(dots, arrays, 0)

\* A natural number of the list-of-digits form, as an integer.
RECURSIVE BigValue(_)
BigValue(a) == IF a = <<>> THEN 0 ELSE Head(a) + BigBase * BigValue(Tail(a))

\* fitness[0] + ... + fitness[i], the fitnesses being whole numbers.
RECURSIVE WholeSum(_, _)
WholeSum(ds, i) == IF i < 0 THEN 0 ELSE WholeSum(ds, i - 1) + ds[i].fitness[1]

\* C7: with fitness_sum > 0 and a draw r, 0 <= r < fitness_sum, select_parent
\* returns the dot of lowest index i with fitness[0] + ... + fitness[i] > r.
\* (The draw is held in half units: 2 * r.)
C7_LowestIndexOverDraw ==
    [][(pc = "natural_selection" /\ WholeSum(dots, Size(dots) - 1) > 0) =>
          \A s \in DOMAIN picks' :
              LET r2 == BigValue(picks'[s].rand)
                  i == picks'[s].parent
              IN  /\ 0 <= r2 /\ r2 < 2 * WholeSum(dots, Size(dots) - 1)
                  /\ i \in DOMAIN dots
                  /\ 2 * WholeSum(dots, i) > r2
                  /\ \A j \in DOMAIN dots : j < i => 2 * WholeSum(dots, j) <= r2]_vars

\* C7, reached: fitnesses 4, 6 and 0, the draw 4, and dot 1 selected.
C7_Witness ==
    /\ pc = "mutate_babies"
    /\ fitness_sum.num = <<10>>
    /\ picks[1].rand = <<8>>
    /\ picks[1].parent = 1
    /\ arrays[1] = [k \in 1..BrainSize |-> DirList[2]]

\* C8: select_parent returns a dot of the population whatever the fitnesses
\* and the draw, fitness_sum = 0 included, so natural_selection never calls
\* get_baby on a value that is no dot.
C8_ParentIsADot ==
    /\ pc # "crashed"
    /\ \A s \in DOMAIN picks : picks[s].parent \in DOMAIN dots

\* C9: the best_dot natural_selection sets is the lowest index among the dots
\* of greatest fitness: no dot has more, and every dot before it has less.
C9_BestIsFirstMaximum ==
    [][pc = "natural_selection" =>
          /\ best_dot' \in DOMAIN dots
          /\ \A j \in DOMAIN dots :
                 /\ dots[best_dot'].fitness[1] >= dots[j].fitness[1]
                 /\ j < best_dot' => dots[best_dot'].fitness[1] > dots[j].fitness[1]]_vars

\* C9, reached: fitnesses 4, 6 and 6: dots 1 and 2 tie, and best_dot is 1.
C9_Witness ==
    /\ pc = "mutate_babies"
    /\ fitness_sum.num = <<16>>
    /\ best_dot = 1
    /\ arrays[0] = [k \in 1..BrainSize |-> DirList[2]]

\* C10: natural_selection sets min_step to the brain step of the old
\* population's best dot if that dot reached the goal and leaves it alone
\* otherwise; update, calculate_fitness and mutate_babies never change it.
C10_MinStepFromBest ==
    [][IF pc = "natural_selection"
       THEN LET b == dots[BestIndex(dots)]
            IN  min_step' = IF b.reached_goal = 1 THEN b.brain.step ELSE min_step
       ELSE min_step' = min_step]_vars

\* C10, reached: natural_selection has lowered min_step.
C10_Witness ==
    /\ pc = "mutate_babies"
    /\ min_step < BrainSize

\* C11: min_step starts at the length of a brain, no step of the program
\* raises it, whatever the number of generations, and it stays at 1 or more.
C11_MinStepNeverGrows ==
    /\ min_step = BrainSize
    /\ [][min_step' <= min_step /\ min_step' >= 1]_vars

\* C11, reached: min_step already lowered, a generation ends with a dot at
\* the goal whose brain step is above min_step, and a selection follows.
C11_Witness ==
    /\ pc = "natural_selection"
    /\ min_step < BrainSize
    /\ \E i \in DOMAIN dots :
           dots[i].reached_goal = 1 /\ dots[i].brain.step > min_step

\* C12: when a generation has ended (all dots dead or at the goal, the
\* counters not yet reset), dead_count is the number of dead dots, goal_count
\* the number of dots at the goal, and the two add up to the size of the
\* population: every dot is counted once.
C12_CountersExact ==
    (pc = "loop" /\ all_dots_dead(dots)) =>
        /\ dead_count = Cardinality({i \in DOMAIN dots : dots[i].dead = 1})
        /\ goal_count = Cardinality({i \in DOMAIN dots : dots[i].reached_goal = 1})
        /\ dead_count + goal_count = Size(dots)

NoneActive(ds) == \A i \in DOMAIN ds : ~Active(ds[i])

\* The steps of main's loop that are its four calls.
IsEvaluate == pc = "loop" /\ pc' = "natural_selection"

IsNextGeneration == pc = "natural_selection" /\ pc' = "mutate_babies"

IsMutate == pc = "mutate_babies" /\ pc' = "loop"

\* C14 as stated: calculate_fitness, natural_selection and mutate_babies
\* each run only in a state where every dot is dead or at the goal, in that
\* order, update runs only in a state where some dot is active, and gen
\* starts at 1 and goes up by 1 with each natural_selection and never else.
C14_PhasesWhenAllTerminal ==
    /\ gen = 1
    /\ [][/\ IsEvaluate => (NoneActive(dots) /\ gen' = gen)
          /\ IsNextGeneration =>
                 /\ NoneActive(dots)
                 /\ \A i \in DOMAIN dots : dots[i].fitness[1] > 0
                 /\ gen' = gen + 1
          /\ IsMutate => (NoneActive(dots) /\ gen' = gen)
          /\ Ticked => (~NoneActive(dots) /\ gen' = gen)]_vars

\* C14, amended: calculate_fitness and natural_selection each run only in a
\* state where every dot is dead or at the goal, natural_selection on the
\* fitnesses calculate_fitness has set; mutate_babies runs next, once, on the
\* new population natural_selection has made, whose dots are all active and
\* at brain step 0; update runs only in a state where some dot is active;
\* gen starts at 1 and goes up by 1 with each natural_selection and never
\* else.
C14_PhaseOrder ==
    /\ gen = 1
    /\ [][/\ IsEvaluate => (NoneActive(dots) /\ gen' = gen)
          /\ IsNextGeneration =>
                 /\ NoneActive(dots)
                 /\ \A i \in DOMAIN dots : dots[i].fitness[1] > 0
                 /\ gen' = gen + 1
          /\ IsMutate =>
                 /\ \A i \in DOMAIN dots :
                        Active(dots[i]) /\ dots[i].brain.step = 0
                 /\ dots[0].is_best = 1
                 /\ moves = 0
                 /\ gen' = gen
          /\ Ticked => (~NoneActive(dots) /\ gen' = gen)]_vars

\* C14, reached: two generations have been closed, each by its three calls,
\* and the third is being moved.
C14_Witness ==
    /\ pc = "loop"
    /\ gen = 3
    /\ moves > 0
    /\ ~NoneActive(dots)

\* C15: the population keeps its size: whatever the number of generations,
\* dots has the swarm_size slots 0 .. swarm_size - 1 it was built with, and
\* each slot holds a dot, with a brain whose directions are an array.
C15_PopulationKeepsSize ==
    /\ DOMAIN dots = 0..(swarm_size - 1)
    /\ Cardinality(DOMAIN dots) = swarm_size
    /\ \A i \in DOMAIN dots :
           /\ dots[i].brain.directions \in DOMAIN arrays
           /\ Len(arrays[dots[i].brain.directions]) = BrainSize

\* C15, reached: natural_selection has replaced the population twice.
C15_Witness ==
    /\ gen = 3
    /\ pc = "mutate_babies"
    /\ \A i \in DOMAIN picks : picks[i].parent \in 0..(swarm_size - 1)

\* C16: all_dots_dead is True exactly when no dot is active, that is when
\* every dot is dead or at the goal, and False when one dot or more has
\* neither flag set.
C16_AllDeadIffNoneActive ==
    all_dots_dead(dots) <=>
        Cardinality({i \in DOMAIN dots :
                        dots[i].dead = 0 /\ dots[i].reached_goal = 0}) = 0

\* C16, reached: all_dots_dead is True of a population with a dot at the goal
\* that is not dead, next to a dot that is dead.
C16_Witness ==
    /\ all_dots_dead(dots)
    /\ \E i \in DOMAIN dots : dots[i].reached_goal = 1 /\ dots[i].dead = 0
    /\ \E i \in DOMAIN dots : dots[i].reached_goal = 0 /\ dots[i].dead = 1

\* C17: in natural_selection, fitness_sum is the sum of the fitnesses of the
\* old population, every draw lies under it, every parent selected for the
\* slots 1 .. swarm_size - 1 is a dot of the old population (the one whose
\* stretch of the old running sum holds the draw), and the new dot of a slot
\* holds its parent's directions.  (The fitnesses are whole numbers here,
\* and a draw is held in half units.)
C17_ParentsFromOldPopulation ==
    [][IsNextGeneration =>
          /\ fitness_sum'.den = <<1>>
          /\ BigValue(fitness_sum'.num) = WholeSum(dots, Size(dots) - 1)
          /\ DOMAIN picks' = 1..(Size(dots) - 1)
          /\ \A s \in DOMAIN picks' :
                 LET i == picks'[s].parent
                 IN  /\ i \in DOMAIN dots
                     /\ BigValue(picks'[s].rand) < 2 * WholeSum(dots, Size(dots) - 1)
                     /\ BigValue(picks'[s].rand) < 2 * WholeSum(dots, i)
                     /\ DirsOf(dots', arrays', s) = DirsOf(dots, arrays, i)]_vars

\* C17, reached: fitnesses 4, 4 and 6, and both slots filled from dot 2, the
\* last of the old population.
C17_Witness ==
    /\ pc = "mutate_babies"
    /\ fitness_sum.num = <<14>>
    /\ best_dot = 2
    /\ picks[1].parent = 2
    /\ picks[2].parent = 2
    /\ arrays[1] = [k \in 1..BrainSize |-> DirList[3]]
    /\ arrays[2] = [k \in 1..BrainSize |-> DirList[3]]

\* C18: right after natural_selection every dot of the new population is
\* active, at brain step 0, with fitness 0 and velocity 0, at the start
\* position, and is_best is set on dot 0 and on no other; in generation 1 no
\* dot has is_best set; and never do two dots have it set.
C18_NewDotsFreshOneBest ==
    /\ pc = "mutate_babies" =>
           \A i \in DOMAIN dots :
               /\ dots[i].dead = 0 /\ dots[i].reached_goal = 0
               /\ dots[i].brain.step = 0
               /\ dots[i].fitness = <<0, 1>>
               /\ dots[i].vel = <<0, 0>>
               /\ dots[i].pos = <<height - StartOffset, (19 * width) \div 20>>
               /\ dots[i].is_best = IF i = 0 THEN 1 ELSE 0
    /\ gen = 1 => \A i \in DOMAIN dots : dots[i].is_best = 0
    /\ Cardinality({i \in DOMAIN dots : dots[i].is_best = 1}) <= 1

\* C18, reached: in the third generation, a new dot whose parent is dot 0 of
\* the second, the one that had is_best set.
C18_Witness ==
    /\ pc = "mutate_babies"
    /\ gen = 3
    /\ \E s \in DOMAIN picks : picks[s].parent = 0 /\ dots[s].is_best = 0

\* The smaller of two numbers.
Min(a, b) == IF a < b THEN a ELSE b

\* C19: a generation ends within Min(BrainSize, min_step) + 2 calls of
\* update: after that many, every dot is dead or at the goal, and there is
\* no further call.  On each call an active dot either goes one brain step
\* on or ends dead or at the goal; a dot whose brain step is over min_step
\* is not moved; and no brain step goes over Min(BrainSize, min_step + 1).
C19_GenerationEnds ==
    /\ [](pc = "loop" =>
              /\ moves <= Min(BrainSize, min_step) + 2
              /\ moves = Min(BrainSize, min_step) + 2 => NoneActive(dots)
              /\ \A i \in DOMAIN dots :
                     dots[i].brain.step <= Min(BrainSize, min_step + 1))
    /\ [][Ticked =>
              \A i \in DOMAIN dots :
                  /\ Active(dots[i]) =>
                         \/ dots'[i].brain.step = dots[i].brain.step + 1
                         \/ ~Active(dots'[i])
                  /\ dots[i].brain.step > min_step =>
                         /\ dots'[i].pos = dots[i].pos
                         /\ dots'[i].brain.step = dots[i].brain.step]_vars

\* C19, reached: under a min_step of 1, the third call of update has ended a
\* generation by killing a dot that was active at brain step 2.
C19_Witness ==
    /\ pc = "loop"
    /\ min_step = 1
    /\ moves = 3
    /\ NoneActive(dots)
    /\ \E i \in DOMAIN dots :
           /\ dots[i].dead = 1 /\ dots[i].reached_goal = 0
           /\ dots[i].brain.step = 2
           /\ dots[i].pos \in ActivePlaces

\* C20: if the best dot of a generation ended at the goal with brain step s,
\* then in the next generation min_step is s, dot 0 is never over min_step
\* nor dead short of the goal, and it ends at the goal with brain step s.
\* And the best dot of a generation with a dot at the goal is a dot at the
\* goal, so that once a generation has a dot at the goal, every later one
\* ends with one.
C20_BestReplays ==
    /\ []((pc = "loop" /\ gen > 1 /\ elite_of.reached_goal = 1) =>
              /\ min_step = elite_of.step
              /\ dots[0].brain.step <= min_step
              /\ dots[0].dead = 1 => dots[0].reached_goal = 1
              /\ NoneActive(dots) =>
                     /\ dots[0].reached_goal = 1
                     /\ dots[0].brain.step = elite_of.step)
    /\ [][(IsNextGeneration /\ \E i \in DOMAIN dots : dots[i].reached_goal = 1) =>
              /\ elite_of'.reached_goal = 1
              /\ dots[best_dot'].reached_goal = 1
              /\ elite_of'.step = dots[best_dot'].brain.step]_vars

\* C20, reached: the third generation has ended with dot 0 at the goal at
\* the brain step of its parent, under a min_step that has killed another dot.
C20_Witness ==
    /\ pc = "loop"
    /\ gen = 3
    /\ NoneActive(dots)
    /\ elite_of.reached_goal = 1
    /\ dots[0].reached_goal = 1
    /\ dots[0].brain.step = min_step
    /\ \E i \in DOMAIN dots :
           /\ dots[i].dead = 1 /\ dots[i].reached_goal = 0
           /\ dots[i].brain.step = min_step + 1
====
